---- MODULE Spec2Model ----
(***************************************************************************)
(* A model of the RCT inverter client: the incremental frame parser        *)
(* (rct_parser.FrameParser) and the session reader's receive loop          *)
(* (rct_reader.RctReader.recv_frame).  Bytes are integers 0..255, buffers  *)
(* are sequences of bytes.  Python indexes from 0 and TLA+ sequences from  *)
(* 1: every index held in a variable or passed between operators is the    *)
(* Python (0-based) index, and At(s, i) reads s[i] as Python does.         *)
(***************************************************************************)
EXTENDS Integers, Sequences, FiniteSets, TLC

\* ------------------------------------------------------------ constants

START_TOKEN == 43
ESCAPE_TOKEN == 45
FRAME_LENGTH_CRC16 == 2
BUFFER_LEN_COMMAND == 2

\* rctclient.types.Command
READ == 1
LONG_WRITE == 3
RESPONSE == 5
LONG_RESPONSE == 6
PLANT_LONG_WRITE == 67
PLANT_RESPONSE == 69
PLANT_LONG_RESPONSE == 70
EXTENSION == 60

\* Command(c) raises ValueError for a byte outside this set.
CommandValues ==
    {1, 2, 3, 4, 5, 6, 7, 8, 65, 66, 67, 68, 69, 70, 71, 72, EXTENSION}

is_plant(command) ==
    IF command = EXTENSION THEN FALSE ELSE (command \div 64) % 2 = 1

is_long(command) ==
    IF command = EXTENSION THEN FALSE
    ELSE command \in {LONG_WRITE, LONG_RESPONSE, PLANT_LONG_WRITE, PLANT_LONG_RESPONSE}

ResponseCommands == {RESPONSE, LONG_RESPONSE, PLANT_RESPONSE, PLANT_LONG_RESPONSE}

\* ------------------------------------------------------------ sequences

At(s, i) == s[i + 1]

\* Python's s[a:b] for 0 <= a, 0 <= b.
Slice(s, a, b) ==
    LET hi == IF b > Len(s) THEN Len(s) ELSE b
    IN  IF a >= hi THEN <<>> ELSE SubSeq(s, a + 1, hi)

\* Python's s[a:].
From(s, a) == Slice(s, a, Len(s))

\* struct.unpack('>H' / '>I', ...) of a slice that has exactly that many bytes.
RECURSIVE BigEndian(_)
BigEndian(s) ==
    IF s = <<>> THEN 0
    ELSE BigEndian(SubSeq(s, 1, Len(s) - 1)) * 256 + s[Len(s)]

\* struct.pack('>H', v) and struct.pack('>I', v).
Pack16(v) == << v \div 256, v % 256 >>
Pack32(v) == << v \div 16777216, (v \div 65536) % 256, (v \div 256) % 256, v % 256 >>

\* ---------------------------------------------------------------- CRC16

\* One bit of a ^ b: w is the bit's weight.
XorBit(a, b, w) == IF ((a \div w) % 2) = ((b \div w) % 2) THEN 0 ELSE w

Xor8(a, b) ==
    XorBit(a, b, 1) + XorBit(a, b, 2) + XorBit(a, b, 4) + XorBit(a, b, 8)
    + XorBit(a, b, 16) + XorBit(a, b, 32) + XorBit(a, b, 64) + XorBit(a, b, 128)

Xor16(a, b) == Xor8(a % 256, b % 256) + 256 * Xor8(a \div 256, b \div 256)

\* crcsum <<= 1; on overflow into bit 16: (crcsum & 0xFFFF) ^ 0x1021.
CrcShift(crc) ==
    IF crc * 2 >= 65536 THEN Xor16((crc * 2) % 65536, 4129) ELSE crc * 2

\* The eight shifts of the inner loop.
CrcShift8(crc) ==
    CrcShift(CrcShift(CrcShift(CrcShift(CrcShift(CrcShift(CrcShift(CrcShift(crc))))))))

\* The eight shifts applied to each possible high byte, the low byte being 0.
\* The shifts are linear over xor, so the low byte's share is (low << 8).
CrcTable == [hi \in 0 .. 255 |-> CrcShift8(hi * 256)]

\* crcsum ^= byte << 8, then the eight shifts; crcsum stays within 16 bits.
CrcByte(crc, byte) ==
    IF crc \notin 0 .. 65535 THEN 0
    ELSE Xor16((crc % 256) * 256, CrcTable[Xor8(crc \div 256, byte)])

\* The for loop over the (padded) buffer.
RECURSIVE CrcFold(_)
CrcFold(data) ==
    IF data = <<>> THEN 65535
    ELSE CrcByte(CrcFold(SubSeq(data, 1, Len(data) - 1)), data[Len(data)])

CRC16(data) ==
    CrcFold(IF Len(data) % 2 = 1 THEN Append(data, 0) ELSE data)

\* ----------------------------------------------------------- make_frame

RECURSIVE Escape(_)
Escape(s) ==
    IF s = <<>> THEN <<>>
    ELSE IF Head(s) \in {START_TOKEN, ESCAPE_TOKEN}
         THEN <<ESCAPE_TOKEN, Head(s)>> \o Escape(Tail(s))
         ELSE <<Head(s)>> \o Escape(Tail(s))

\* The unescaped body of a frame: COMMAND .. last DATA byte.
FrameBody(command, id, payload, address) ==
    LET fixed == IF is_plant(command) THEN 8 ELSE 4
        len   == fixed + Len(payload)
    IN  <<command>>
        \o (IF is_long(command) THEN Pack16(len) ELSE <<len>>)
        \o (IF is_plant(command) THEN Pack32(address) ELSE <<>>)
        \o Pack32(id)
        \o payload

make_frame(command, id, payload, address) ==
    LET body == FrameBody(command, id, payload, address)
    IN  <<START_TOKEN>> \o Escape(body \o Pack16(CRC16(body)))

\* ---------------------------------------------------------- FrameParser

NoFrame == [command |-> 0, oid |-> 0, crc16 |-> 0, crc_ok |-> FALSE, address |-> 0,
            frame_length |-> 0, frame_type |-> "None", payload |-> <<>>]

\* FrameParser.__init__ followed by reset().
NewParser(ignore_crc) ==
    [ignore_crc_mismatch |-> ignore_crc, complete_frame |-> TRUE,
     current_pos |-> 0, escape_indexes |-> <<>>]

find_escaped_byte(data) ==
    LET hits == {pos \in 0 .. Len(data) - 2 :
                    /\ At(data, pos) = ESCAPE_TOKEN
                    /\ At(data, pos + 1) \in {START_TOKEN, ESCAPE_TOKEN}}
    IN  IF hits = {} THEN -1
        ELSE CHOOSE pos \in hits : \A q \in hits : pos <= q

\* _unescape_buffer: the unescaped buffer and the grown escape_indexes.
\* UnescapeAt is one turn of its while loop, pos being what the search found.
RECURSIVE unescape_buffer(_, _, _)
RECURSIVE UnescapeAt(_, _, _, _)
unescape_buffer(buffer, escape_indexes, current_pos) ==
    UnescapeAt(buffer, escape_indexes, current_pos, find_escaped_byte(buffer))

UnescapeAt(buffer, escape_indexes, current_pos, pos) ==
    IF pos < 0
    THEN [buffer |-> buffer, escape_indexes |-> escape_indexes]
    ELSE unescape_buffer(Slice(buffer, 0, pos) \o From(buffer, pos + 1),
                         Append(escape_indexes, pos + current_pos),
                         current_pos)

\* A start search without the inner while: no start token is skipped.
SkipNoStartToken(buffer, j) == j

\* The inner while of the start search: the first j >= j0 that is not a start token.
RECURSIVE SkipStartTokens(_, _)
SkipStartTokens(buffer, j) ==
    IF j < Len(buffer) /\ At(buffer, j) = START_TOKEN
    THEN SkipStartTokens(buffer, j + 1)
    ELSE j

\* The outer while of the start search, entered with start < 0 at index i.
RECURSIVE FindStart(_, _)
FindStart(buffer, i) ==
    IF i >= Len(buffer) THEN [start |-> -1, i |-> i]
    ELSE IF At(buffer, i) = START_TOKEN
         THEN IF i > 0 /\ At(buffer, i - 1) = ESCAPE_TOKEN
              THEN FindStart(buffer, i + 1)
              ELSE LET j == SkipStartTokens(buffer, i + 1)
                   IN  IF j = i + 1
                       THEN [start |-> i, i |-> i + 1]
                       ELSE FindStart(buffer, j + 1)
         ELSE FindStart(buffer, i + 1)

\* frame_header_length once the command is known.
HeaderLength(command) ==
    7 + (IF is_plant(command) THEN 4 ELSE 0) + (IF is_long(command) THEN 1 ELSE 0)

\* frame_type as the two ifs on the command leave it.
FrameTypeOf(command) ==
    IF is_long(command) THEN "STANDARD"
    ELSE IF is_plant(command) THEN "PLANT"
    ELSE "None"

\* The first escape index at or below current_pos moves current_pos on by one.
AdjustPos(current_pos, escape_indexes) ==
    IF \E k \in 1 .. Len(escape_indexes) : current_pos >= escape_indexes[k]
    THEN current_pos + 1
    ELSE current_pos

\* A header whose frame_length leaves out the start token.
ParseHeaderFromCommand(unescaped, command) ==
    LET hl          == HeaderLength(command)
        raw_len     == IF is_long(command) THEN BigEndian(Slice(unescaped, 2, 4))
                       ELSE At(unescaped, 2)
        address_idx == IF is_long(command) THEN 4 ELSE 3
        oid_idx     == IF is_plant(command) THEN address_idx + 4 ELSE address_idx
    IN  [frame_length |-> (hl - (IF is_plant(command) THEN 8 ELSE 4)) + raw_len
                          + FRAME_LENGTH_CRC16 - 1,
         address      |-> IF is_plant(command)
                          THEN BigEndian(Slice(unescaped, address_idx, address_idx + 4))
                          ELSE 0,
         data_length  |-> raw_len - (IF is_plant(command) THEN 8 ELSE 4),
         oid          |-> BigEndian(Slice(unescaped, oid_idx, oid_idx + 4)),
         i            |-> oid_idx + 4]

\* The header fields read once the buffer holds the whole header.
ParseHeader(unescaped, command) ==
    LET hl          == HeaderLength(command)
        raw_len     == IF is_long(command) THEN BigEndian(Slice(unescaped, 2, 4))
                       ELSE At(unescaped, 2)
        address_idx == IF is_long(command) THEN 4 ELSE 3
        oid_idx     == IF is_plant(command) THEN address_idx + 4 ELSE address_idx
    IN  [frame_length |-> (hl - (IF is_plant(command) THEN 8 ELSE 4)) + raw_len
                          + FRAME_LENGTH_CRC16,
         address      |-> IF is_plant(command)
                          THEN BigEndian(Slice(unescaped, address_idx, address_idx + 4))
                          ELSE 0,
         data_length  |-> raw_len - (IF is_plant(command) THEN 8 ELSE 4),
         oid          |-> BigEndian(Slice(unescaped, oid_idx, oid_idx + 4)),
         i            |-> oid_idx + 4]

\* An incomplete frame whose reset() is not followed by complete_frame = False.
IncompleteAfterReset(q) ==
    [parser |-> [q EXCEPT !.escape_indexes = <<>>, !.complete_frame = TRUE],
     outcome |-> "None", frame |-> NoFrame]

\* The frame is incomplete: reset(), complete_frame = False, return None.
Incomplete(q) ==
    [parser |-> [q EXCEPT !.escape_indexes = <<>>, !.complete_frame = FALSE],
     outcome |-> "None", frame |-> NoFrame]

\* The buffer holds the whole frame: the CRC check, the new current_pos and
\* the frame returned.  crc16 is the CRC read, calc_crc16 the CRC computed.
EmitFrame(q, start_token_pos, unescaped, c, h, crc16, calc_crc16) ==
    IF crc16 # calc_crc16 /\ ~q.ignore_crc_mismatch
    THEN [parser |-> q, outcome |-> "FrameCRCMismatch", frame |-> NoFrame]
    ELSE [parser |->
            [q EXCEPT !.complete_frame = TRUE,
                      !.current_pos =
                          AdjustPos(start_token_pos + h.i + h.data_length + 2,
                                    q.escape_indexes)],
          outcome |-> "Frame",
          frame |-> [command |-> c, oid |-> h.oid, crc16 |-> calc_crc16,
                     crc_ok |-> crc16 = calc_crc16, address |-> h.address,
                     frame_length |-> h.frame_length,
                     frame_type |-> FrameTypeOf(c),
                     payload |-> Slice(unescaped, h.i, h.i + h.data_length)]]

\* The header h has been read: is the whole frame in the buffer?
ParseWithHeader(q, start_token_pos, unescaped, c, h) ==
    IF h.frame_length > 0 /\ Len(unescaped) >= h.frame_length
    THEN EmitFrame(q, start_token_pos, unescaped, c, h,
                   BigEndian(Slice(unescaped, h.i + h.data_length,
                                   h.i + h.data_length + 2)),
                   CRC16(Slice(unescaped, 1, h.i + h.data_length)))
    ELSE Incomplete(q)

\* The command byte and the header, read from the unescaped bytes that
\* begin with the start token.
ParseUnescaped(q, start_token_pos, unescaped) ==
    LET length  == Len(unescaped)
        has_cmd == length - 1 >= BUFFER_LEN_COMMAND
        c       == IF length > 1 THEN At(unescaped, 1) ELSE 0
    IN  IF has_cmd /\ (c \notin CommandValues \/ c = EXTENSION)
        THEN [parser |-> q, outcome |-> "InvalidCommand",
              frame |-> [NoFrame EXCEPT !.command = c]]
        ELSE IF length < (IF has_cmd THEN HeaderLength(c) ELSE 7)
        THEN Incomplete(q)
        ELSE ParseWithHeader(q, start_token_pos, unescaped, c,
                             ParseHeader(unescaped, c))

\* un is what _unescape_buffer made of buffer[start:].
ParseStart(p, start, un) ==
    ParseUnescaped([p EXCEPT !.escape_indexes = un.escape_indexes], start, un.buffer)

\* The body of parse from the accepted start token on.
ParseFrom(p, buffer, start) ==
    ParseStart(p, start,
               unescape_buffer(From(buffer, start), p.escape_indexes, p.current_pos))

\* An end of the start search that leaves current_pos where it was when no
\* start token was found.
ParseAtKeepPos(p, buffer, fs) ==
    IF fs.start < 0
    THEN [parser |-> [p EXCEPT !.complete_frame = FALSE],
          outcome |-> "None", frame |-> NoFrame]
    ELSE ParseFrom(p, buffer, fs.start)

\* The start search has ended with fs: no start token, or the accepted one.
ParseAt(p, buffer, fs) ==
    IF fs.start < 0
    THEN [parser |-> [p EXCEPT !.current_pos = Len(buffer), !.complete_frame = FALSE],
          outcome |-> "None", frame |-> NoFrame]
    ELSE ParseFrom(p, buffer, fs.start)

\* parse after its conditional reset().
ParseScan(p, buffer) == ParseAt(p, buffer, FindStart(buffer, p.current_pos))

\* FrameParser.parse: the parser after the call, what the call did ("Frame",
\* "None", or the exception raised) and the frame returned; for InvalidCommand
\* frame.command is the byte the exception carries.
parse(p0, buffer) ==
    ParseScan(IF p0.complete_frame /\ p0.current_pos < Len(buffer)
              THEN [p0 EXCEPT !.complete_frame = TRUE, !.escape_indexes = <<>>]
              ELSE p0,
              buffer)

\* FrameParser.rewinded
rewinded(p) == [p EXCEPT !.current_pos = 0]


\* ------------------------------------------------------------ test input

\* Bounds of the explored inputs.
MaxPayloadLen == 2
MaxPairPayloadLen == 1
MaxNoise == 4
MaxCalls == 2

\* Object ids of the two worked examples (0x3C24F3E8, 0x3623D82A) and the
\* plant address used for plant frames.
ObjectIds == {1009054696, 908318762}
PlantAddress == 4711

\* Payload bytes: two plain values and the two tokens that need escaping.
PayloadBytes == {0, 2, START_TOKEN, ESCAPE_TOKEN}
NoiseBytes == {0, START_TOKEN, ESCAPE_TOKEN}

\* All sequences over S of length at most n.
SeqsUpTo(S, n) == UNION {[1 .. k -> S] : k \in 0 .. n}

\* What a sender passes to make_frame, for payloads of at most n bytes.
FrameDescsUpTo(n) ==
    {[command |-> c, oid |-> o, payload |-> pl,
      address |-> IF is_plant(c) THEN PlantAddress ELSE 0] :
        c \in ResponseCommands, o \in ObjectIds,
        pl \in SeqsUpTo(PayloadBytes, n)}

FrameDescs == FrameDescsUpTo(MaxPayloadLen)
PairDescs == FrameDescsUpTo(MaxPairPayloadLen)

Wire(d) == make_frame(d.command, d.oid, d.payload, d.address)

\* Noise without an unescaped start token: every 0x2B follows a 0x2D.
NoUnescapedStart(n) ==
    \A k \in 1 .. Len(n) :
        n[k] = START_TOKEN => (k > 1 /\ n[k - 1] = ESCAPE_TOKEN)

NoiseSeqs == {n \in SeqsUpTo(NoiseBytes, MaxNoise) : NoUnescapedStart(n)}

\* -------------------------------------------------------------- socket
\* The connected socket is a script, as the tests' SocketMock is: the chunks
\* it will deliver, in order, a timeout where a read is to time out, and the
\* remote close (a read of zero bytes) once the script is used up.

DataItem(bytes) == [timeout |-> FALSE, data |-> bytes]
TimeoutItem == [timeout |-> TRUE, data |-> <<>>]

\* sock.recv_into(view, len(view)) with a view of room bytes: at most room
\* bytes of the next chunk, the rest of the chunk staying in the socket.
recv_into(sock, room) ==
    IF sock = <<>>
    THEN [raised |-> FALSE, data |-> <<>>, sock |-> sock]
    ELSE IF Head(sock).timeout
    THEN [raised |-> TRUE, data |-> <<>>, sock |-> Tail(sock)]
    ELSE LET chunk == Head(sock).data
         IN  IF Len(chunk) <= room
             THEN [raised |-> FALSE, data |-> chunk, sock |-> Tail(sock)]
             ELSE [raised |-> FALSE, data |-> SubSeq(chunk, 1, room),
                   sock |-> <<DataItem(SubSeq(chunk, room + 1, Len(chunk)))>>
                            \o Tail(sock)]

\* ------------------------------------------------------------ RctReader

MAX_FRAME_SIZE == 1024

\* The object ids the registry knows.
RegistryIds == ObjectIds

\* RctReader.__init__.  rewind_threshold is min(MAX_FRAME_SIZE, buffer_size / 2),
\* a float: it is kept doubled, as rewind_threshold2.
NewReader(buffer_size) ==
    [buffer |-> [k \in 1 .. buffer_size |-> 0],
     parser |-> NewParser(FALSE),
     on_frame_received |-> FALSE,
     rewind_threshold2 |-> IF 2 * MAX_FRAME_SIZE < buffer_size
                           THEN 2 * MAX_FRAME_SIZE ELSE buffer_size]

\* No recv_frame call is running.  Beside the locals of recv_frame a call
\* keeps parsed, the frames that reached the hand-over (a complete frame of
\* a known object id), and handed, the frames on_frame_received was called
\* with.
NoCall ==
    [active |-> FALSE, no_frames |-> 0, bytes_read |-> 0, buffer_pos |-> 0,
     frames_received |-> 0, continue_parsing |-> FALSE, mv_len |-> 0,
     responses |-> <<>>, parsed |-> <<>>, handed |-> <<>>]

\* The locals of recv_frame as its first lines set them (mv is None).
EnterCall(rd, no_frames) ==
    [active |-> TRUE, no_frames |-> no_frames,
     bytes_read |-> rd.parser.current_pos, buffer_pos |-> 0,
     frames_received |-> 0, continue_parsing |-> TRUE, mv_len |-> 0,
     responses |-> <<>>, parsed |-> <<>>, handed |-> <<>>]

\* buffer[at : at + len(data)] = data, as recv_into writes it.
WriteAt(buffer, at, data) ==
    [k \in 1 .. Len(buffer) |->
        IF k > at /\ k <= at + Len(data) THEN data[k - at] ELSE buffer[k]]

\* A forced rewind that copies the unparsed bytes and leaves the write cursor
\* where it was.
CompactKeepCursor(m) ==
    IF 2 * (m.call.buffer_pos + m.call.bytes_read)
           > 2 * Len(m.reader.buffer) - m.reader.rewind_threshold2
    THEN IF m.call.mv_len - m.reader.parser.current_pos < 0
         THEN [m EXCEPT !.done = "BufferError"]
         ELSE [m EXCEPT
                 !.reader.buffer =
                     WriteAt(@, 0, Slice(@, m.reader.parser.current_pos,
                                         m.call.mv_len)),
                 !.reader.parser = rewinded(@),
                 !.call.bytes_read = m.call.mv_len - m.reader.parser.current_pos,
                 !.call.mv_len = m.call.mv_len - m.reader.parser.current_pos]
    ELSE m

\* The end of one pass through the while loop: the forced rewind that copies
\* the unparsed bytes to the buffer's start when the buffer fills up.
\* m holds the reader, the socket, the call's locals, the frames the pass
\* handed to the callback, and done, which is "" while the loop goes on.
Compact(m) ==
    IF 2 * (m.call.buffer_pos + m.call.bytes_read)
           > 2 * Len(m.reader.buffer) - m.reader.rewind_threshold2
    THEN IF m.call.mv_len - m.reader.parser.current_pos < 0
         THEN [m EXCEPT !.done = "BufferError"]
         ELSE [m EXCEPT
                 !.reader.buffer =
                     WriteAt(@, 0, Slice(@, m.reader.parser.current_pos,
                                         m.call.mv_len)),
                 !.reader.parser = rewinded(@),
                 !.call.buffer_pos = 0,
                 !.call.bytes_read = m.call.mv_len - m.reader.parser.current_pos,
                 !.call.mv_len = m.call.mv_len - m.reader.parser.current_pos]
    ELSE m

\* A hand-over that calls the callback and appends to the list as well.
DeliverBoth(rd, sk, c, r, consumed) ==
    [reader |-> [rd EXCEPT !.parser = IF consumed THEN rewinded(r.parser)
                                      ELSE r.parser],
     sock |-> sk,
     call |-> [c EXCEPT
                 !.frames_received = @ + 1,
                 !.continue_parsing =
                     IF c.no_frames > 0
                     THEN c.frames_received + 1 < c.no_frames ELSE @,
                 !.responses = Append(@, r.frame),
                 !.parsed = Append(@, r.frame),
                 !.handed = IF rd.on_frame_received THEN Append(@, r.frame) ELSE @,
                 !.buffer_pos = IF consumed THEN 0 ELSE @,
                 !.bytes_read = IF consumed THEN 0 ELSE @],
     handed |-> IF rd.on_frame_received THEN <<r.frame>> ELSE <<>>,
     done |-> ""]

\* parse has returned r with a complete frame of a known object id: count it,
\* hand it over, and rewind if every byte received has been consumed.
Deliver(rd, sk, c, r, consumed) ==
    [reader |-> [rd EXCEPT !.parser = IF consumed THEN rewinded(r.parser)
                                      ELSE r.parser],
     sock |-> sk,
     call |-> [c EXCEPT
                 !.frames_received = @ + 1,
                 !.continue_parsing =
                     IF c.no_frames > 0
                     THEN c.frames_received + 1 < c.no_frames ELSE @,
                 !.responses =
                     IF rd.on_frame_received THEN @ ELSE Append(@, r.frame),
                 !.parsed = Append(@, r.frame),
                 !.handed = IF rd.on_frame_received THEN Append(@, r.frame) ELSE @,
                 !.buffer_pos = IF consumed THEN 0 ELSE @,
                 !.bytes_read = IF consumed THEN 0 ELSE @],
     handed |-> IF rd.on_frame_received THEN <<r.frame>> ELSE <<>>,
     done |-> ""]

\* A pass that hands every complete frame over without asking the registry.
AfterParseNoLookup(rd, sk, c, r) ==
    IF r.outcome \in {"InvalidCommand", "FrameCRCMismatch"}
    THEN [reader |-> [rd EXCEPT !.parser = r.parser], sock |-> sk, call |-> c,
          handed |-> <<>>, done |-> r.outcome]
    ELSE IF ~r.parser.complete_frame
    THEN Compact([reader |-> [rd EXCEPT !.parser = r.parser], sock |-> sk,
                  call |-> c, handed |-> <<>>, done |-> ""])
    ELSE Compact(Deliver(rd, sk, c, r,
                         r.parser.current_pos = c.buffer_pos + c.bytes_read))

\* The pass after parser.parse(mv) has ended with r.
AfterParse(rd, sk, c, r) ==
    IF r.outcome \in {"InvalidCommand", "FrameCRCMismatch"}
    THEN [reader |-> [rd EXCEPT !.parser = r.parser], sock |-> sk, call |-> c,
          handed |-> <<>>, done |-> r.outcome]
    ELSE IF ~r.parser.complete_frame
    THEN Compact([reader |-> [rd EXCEPT !.parser = r.parser], sock |-> sk,
                  call |-> c, handed |-> <<>>, done |-> ""])
    ELSE IF r.frame.oid \notin RegistryIds
    THEN [reader |-> [rd EXCEPT !.parser = r.parser], sock |-> sk,
          call |-> [c EXCEPT !.frames_received = @ + 1],
          handed |-> <<>>, done |-> "InvalidOidError"]
    ELSE Compact(Deliver(rd, sk, c, r,
                         r.parser.current_pos = c.buffer_pos + c.bytes_read))

\* The socket read at the head of a pass has ended with rcv.
AfterRecv(rd, c, buffer_pos, rcv) ==
    IF rcv.raised
    THEN [reader |-> rd, sock |-> rcv.sock,
          call |-> [c EXCEPT !.buffer_pos = buffer_pos],
          done |-> "TimeoutError"]
    ELSE IF Len(rcv.data) = 0
    THEN [reader |-> rd, sock |-> rcv.sock,
          call |-> [c EXCEPT !.buffer_pos = buffer_pos, !.bytes_read = 0],
          done |-> "closed"]
    ELSE [reader |-> [rd EXCEPT !.buffer = WriteAt(@, buffer_pos, rcv.data)],
          sock |-> rcv.sock,
          call |-> [c EXCEPT !.buffer_pos = buffer_pos,
                             !.bytes_read = Len(rcv.data),
                             !.mv_len = buffer_pos + Len(rcv.data)],
          done |-> ""]

\* The head of a pass: the next chunk is read when the buffered bytes are an
\* incomplete frame or the buffer is empty.
ReadIfNeeded(rd, sk, c) ==
    IF (~rd.parser.complete_frame) \/ rd.parser.current_pos = c.bytes_read
    THEN AfterRecv(rd, c, c.buffer_pos + c.bytes_read,
                   recv_into(sk,
                       IF c.buffer_pos + c.bytes_read < Len(rd.buffer)
                       THEN Len(rd.buffer) - (c.buffer_pos + c.bytes_read)
                       ELSE 0))
    ELSE [reader |-> rd, sock |-> sk, call |-> c, done |-> ""]

\* The pass from the state s the head of the pass left.
ParseIfRead(s) ==
    IF s.done # ""
    THEN [reader |-> s.reader, sock |-> s.sock, call |-> s.call,
          handed |-> <<>>, done |-> s.done]
    ELSE AfterParse(s.reader, s.sock, s.call,
                    parse(s.reader.parser,
                          SubSeq(s.reader.buffer, 1, s.call.mv_len)))

\* One pass through the while loop of recv_frame.
LoopBody(rd, sk, c) == ParseIfRead(ReadIfNeeded(rd, sk, c))

\* The return that follows a pass which left continue_parsing false.
ReturnIfDone(m) ==
    IF m.done = "" /\ ~m.call.continue_parsing
    THEN [m EXCEPT !.done = "returned"]
    ELSE m

PassOf(rd, sk, c) == ReturnIfDone(LoopBody(rd, sk, c))

\* What the caller of recv_frame gets when the call ends with m.
ResponsesOf(m) ==
    IF m.done \in {"closed", "returned"} THEN m.call.responses ELSE <<>>

\* recv_frame from its first line to its return or raise: what the caller
\* gets, and the reader and the socket as the call leaves them.  handed are
\* the frames given to the callback during the call.
RECURSIVE RunCall(_, _)
RunCall(m, handed) ==
    IF m.done = ""
    THEN RunCall(PassOf(m.reader, m.sock, m.call), handed \o m.handed)
    ELSE [reader |-> m.reader, sock |-> m.sock, done |-> m.done,
          handed |-> handed \o m.handed, responses |-> ResponsesOf(m)]

recv_frame(rd, sk, no_frames) ==
    RunCall([reader |-> rd, sock |-> sk, call |-> EnterCall(rd, no_frames),
             handed |-> <<>>, done |-> ""], <<>>)

\* ------------------------------------------------- read_frames, _read_frame

\* No read_frames call has been made.  pc is where the caller is: "idle"
\* before read_frames, "send" at the head of its for loop, "loop" inside
\* _read_frame's while loop, "returned" and "raised" after read_frames.
\* callback names the function RctReader.on_frame_received holds, and
\* user_callback tells whether the user has installed one of their own.
\* unmatched are the frames on_received was given and did not want.
NoSession ==
    [pc |-> "idle", requests |-> <<>>, result |-> <<>>, wanted_ids |-> {},
     response_frame |-> <<>>, callback |-> "none", user_callback |-> FALSE,
     reads_sent |-> <<>>, unmatched |-> <<>>, error |-> ""]

\* _read_frame up to its while loop: wanted_ids, response_frame = None,
\* register_callback(on_received), and the READ sent for the object id.
EnterReadFrame(s, oid) ==
    [s EXCEPT !.pc = "loop",
              !.wanted_ids = {oid},
              !.response_frame = <<>>,
              !.callback = "on_received",
              !.reads_sent = Append(@, make_frame(READ, oid, <<>>, 0))]

\* on_received(frame), the callback _read_frame registers.
\* A capture that takes whatever frame arrives, wanted or not: the
\* correlation property must tell it from on_received.
on_received_any(s, frame) ==
    [s EXCEPT !.response_frame = <<frame>>]

on_received(s, frame) ==
    IF frame.oid \in s.wanted_ids
    THEN [s EXCEPT !.response_frame = <<frame>>]
    ELSE [s EXCEPT !.unmatched = Append(@, frame)]

\* on_received called for each of the frames recv_frame hands over.
RECURSIVE OnReceivedAll(_, _)
OnReceivedAll(s, frames) ==
    IF frames = <<>> THEN s
    ELSE OnReceivedAll(on_received(s, Head(frames)), Tail(frames))

\* _read_frame returns response_frame; read_frames appends it to result and
\* goes on with the next name, or returns result.
ReturnReadFrame(s) ==
    [s EXCEPT !.result = Append(@, s.response_frame[1]),
              !.pc = IF Len(s.result) + 1 < Len(s.requests)
                     THEN "send" ELSE "returned"]

\* ------------------------------------------------------- parsedump.main
\* parsedump reads a file of captured bytes into one buffer and parses it
\* frame by frame with a FrameParser of its own.

\* parsedump is not run.
NoDump == [pc |-> "none", finished |-> FALSE, counter |-> 0, raised |-> ""]

\* The file is read and the loop is about to begin.
StartDump == [NoDump EXCEPT !.pc = "loop"]

\* What the lines between parse and the except clause do with a frame
\* returned: the registry lookup raises KeyError for an id it does not know,
\* and decode_value succeeds or raises, as the data type of the id and the
\* payload have it.
DecodeOutcomes == {"decoded", "DecodeError"}

\* The loop is left by an exception that main does not catch.
DumpRaised(dp, p, error) ==
    [dump |-> [dp EXCEPT !.pc = "ended", !.raised = error], parser |-> p]

\* The loop goes on, or ends with finished set.
DumpGoesOn(dp, p, finished, counter) ==
    [dump |-> [dp EXCEPT !.pc = IF finished THEN "ended" ELSE "loop",
                         !.finished = finished, !.counter = counter],
     parser |-> p]

\* An except clause that leaves current_pos where the failed parse left it.
DumpInvalidCommandKeepPos(dp, p) ==
    DumpGoesOn(dp, p, dp.finished, 0)

\* The except clause: current_pos moves on by one, the counter starts again.
DumpInvalidCommand(dp, p) ==
    DumpGoesOn(dp, [p EXCEPT !.current_pos = @ + 1], dp.finished, 0)

\* One turn of the while loop, parse having ended with r.
DumpTurn(dp, r, decoded) ==
    IF r.outcome = "InvalidCommand" THEN DumpInvalidCommand(dp, r.parser)
    ELSE IF r.outcome = "FrameCRCMismatch" THEN DumpRaised(dp, r.parser, r.outcome)
    ELSE IF r.outcome = "None"
    THEN DumpGoesOn(dp, r.parser, ~r.parser.complete_frame, dp.counter)
    ELSE IF r.frame.oid \notin RegistryIds THEN DumpRaised(dp, r.parser, "KeyError")
    ELSE IF decoded # "decoded" THEN DumpRaised(dp, r.parser, decoded)
    ELSE DumpGoesOn(dp, r.parser, ~r.parser.complete_frame, dp.counter + 1)

\* ------------------------------------------------- __enter__, __exit__

\* The with statement is left out of the run.  pc is where the with statement is: "none" without one,
\* "new" before __enter__, "body" inside the block, "failed" when __enter__
\* has raised, "exited" after __exit__.  created and closed tell whether
\* socket.socket() has returned a socket and whether close() was called on
\* it; error is what left the with statement.
NoScope ==
    [pc |-> "none", created |-> FALSE, closed |-> FALSE, error |-> ""]

\* The reader has been constructed and the with statement is about to begin.
NewScope == [NoScope EXCEPT !.pc = "new"]

\* What sock.connect does: it returns, or raises one of these.
ConnectOutcomes == {"connected", "ConnectionRefusedError", "TimeoutError"}

\* __enter__: the socket is made, settimeout, connect.  When connect raises,
\* the exception leaves __enter__, the block is not entered and __exit__ is
\* not called.
enter(sc, outcome) ==
    IF outcome = "connected"
    THEN [sc EXCEPT !.pc = "body", !.created = TRUE]
    ELSE [sc EXCEPT !.pc = "failed", !.created = TRUE, !.error = outcome]

\* __exit__: sock.close(), return False; raised is the exception that left
\* the block, "" when the block ended normally.
exit(sc, raised) ==
    [sc EXCEPT !.pc = "exited", !.closed = TRUE, !.error = raised]

\* ------------------------------------------- pv_reader.monitor_inverter
\* The monitoring driver: a loop that opens a connection with the reader
\* as a context manager and reads in an inner loop.

max_retries == 5
MonitorBufferSize == 512

\* monitor_inverter is not run.  retries is a local that no line before the
\* loops assigns: retries_bound tells whether it has a value.  attempts
\* counts the times the with statement was entered.
NoMonitor ==
    [pc |-> "none", read_retries |-> 0, connect_retries |-> 0,
     retries_bound |-> FALSE, retries |-> 0, attempts |-> 0, raised |-> ""]

\* The locals are set and the outer loop is about to begin.
StartMonitor == [NoMonitor EXCEPT !.pc = "loop"]

\* RctReader(host, port, buffer_size=512, timeout=3.0, ignore_crc=True)
MonitorReader ==
    [NewReader(MonitorBufferSize) EXCEPT !.parser = NewParser(TRUE)]

\* reader.server_closed_conn: the attribute's value, or AttributeError for
\* a reader that has no such attribute.
server_closed_conn(rd) ==
    IF "server_closed_conn" \in DOMAIN rd
    THEN rd.server_closed_conn
    ELSE "AttributeError"

\* The end of a pass of the outer loop: time.sleep(5.0 * retries), which
\* raises UnboundLocalError while retries has no value, and 'reconnecting'.
MonitorSleep(mo) ==
    IF mo.retries_bound THEN mo
    ELSE [mo EXCEPT !.pc = "ended", !.raised = "UnboundLocalError"]

\* The block of the with statement, entered with scope sc: read_retries = 0
\* and the condition of the inner loop.  RctReader sets no attribute
\* server_closed_conn, so the condition raises AttributeError, __exit__
\* runs, and the except clause of the outer loop takes it.
MonitorBlock(mo, sc, rd) ==
    CASE 0 < max_retries /\ server_closed_conn(rd) = "AttributeError" ->
            [monitor |-> MonitorSleep([mo EXCEPT !.read_retries = 0]),
             scope |-> exit(sc, "AttributeError")]

\* The with statement has called __enter__, which left the scope sc.
MonitorEntered(mo, sc, rd) ==
    IF sc.pc = "failed"
    THEN [monitor |-> MonitorSleep(mo), scope |-> sc]
    ELSE MonitorBlock(mo, sc, rd)

\* One pass of the outer loop, connect ending with outcome, or the raise
\* behind the loop.
MonitorPass(mo, sc, rd, outcome) ==
    IF mo.connect_retries < max_retries
    THEN MonitorEntered([mo EXCEPT !.attempts = @ + 1],
                        enter(NewScope, outcome), rd)
    ELSE [monitor |-> [mo EXCEPT !.pc = "ended", !.raised = "RuntimeError"],
          scope |-> sc]

\* ------------------------------------------------------------ variables
\*   noise, sent   what the sender put on the wire: leading noise, the frames
\*   stream        the wire bytes
\*   script        the chunks and timeouts the socket is to play, from the start
\* The caller of the parser, as the parser's tests are: it owns a receive
\* buffer and one FrameParser, and calls parse on what has arrived.
\*   avail         how many bytes of the stream are in the caller's buffer
\*   parser        the caller's FrameParser
\*   results       one record per parse call made so far
\* The caller of the reader, as the reader's tests are:
\*   reader        the RctReader: buffer, parser, callback
\*   sock          the script the socket still has to play
\*   call          the locals of the running recv_frame call
\*   history       one record per recv_frame call that has ended
\*   delivered     every frame handed to the caller so far (returned, or given
\*                 to the callback), in the order it was handed over

\* The caller of read_frames:
\*   session       the state of the read_frames call and of the _read_frame
\*                 call inside it

\* The user of the reader as a context manager:
\*   scope         where the with statement is, and the TCP socket it made

\* The program that parses a file of captured frames:
\*   dump          where parsedump's loop is, and how it ended

\* The monitoring driver:
\*   monitor       the locals of monitor_inverter and how it ended

VARIABLES noise, sent, stream, script, avail, parser, results,
          reader, sock, call, history, delivered, session, scope, dump,
          monitor

vars == <<noise, sent, stream, script, avail, parser, results,
          reader, sock, call, history, delivered, session, scope, dump,
          monitor>>

parserVars == <<avail, parser, results>>
readerVars == <<reader, sock, call, history, delivered>>

\* ------------------------------------------------------- parser harness

\* One frame, of which any non-empty prefix has arrived.
InitOneFrame ==
    /\ noise = <<>>
    /\ \E d \in FrameDescs : sent = <<d>> /\ stream = Wire(d)
    /\ avail \in 1 .. Len(stream)

\* Noise and one frame, all of it in the buffer.
InitNoiseFrame ==
    /\ noise \in NoiseSeqs \ {<<>>}
    /\ \E d \in FrameDescs : sent = <<d>> /\ stream = noise \o Wire(d)
    /\ avail = Len(stream)

\* Two frames back to back, all of it in the buffer.
InitTwoFrames ==
    /\ noise = <<>>
    /\ \E d1 \in PairDescs, d2 \in PairDescs :
          sent = <<d1, d2>> /\ stream = Wire(d1) \o Wire(d2)
    /\ avail = Len(stream)

Init ==
    /\ InitOneFrame \/ InitNoiseFrame \/ InitTwoFrames
    /\ parser = NewParser(FALSE)
    /\ results = <<>>
    /\ reader = NewReader(0)
    /\ script = <<>>
    /\ sock = <<>>
    /\ call = NoCall
    /\ history = <<>>
    /\ delivered = <<>>
    /\ session = NoSession
    /\ scope = NoScope
    /\ dump = NoDump
    /\ monitor = NoMonitor

\* The call has ended with r: the caller keeps what it returned or raised.
Record(r) ==
    /\ parser' = r.parser
    /\ results' = Append(results,
           [outcome |-> r.outcome, frame |-> r.frame, avail |-> avail,
            before |-> parser.current_pos, after |-> r.parser.current_pos,
            complete_frame |-> r.parser.complete_frame])

\* The caller calls parser.parse(buffer[0:avail]).
ParseCall ==
    /\ Len(results) < MaxCalls
    /\ Record(parse(parser, SubSeq(stream, 1, avail)))
    /\ UNCHANGED <<monitor, dump, scope, noise, sent, stream, script, session, avail>>
    /\ UNCHANGED readerVars

\* The rest of the stream arrives behind what is in the buffer.
Receive ==
    /\ avail < Len(stream)
    /\ avail' = Len(stream)
    /\ UNCHANGED <<monitor, dump, scope, noise, sent, stream, script, session, parser, results>>
    /\ UNCHANGED readerVars

Next == ParseCall \/ Receive

Spec == Init /\ [][Next]_vars

\* ------------------------------------------- parser harness, edge cases
\* The same two steps on the buffers of the parser's failure semantics: runs
\* of start tokens, garbage, a wrong checksum, a byte that is no command, and
\* well-formed frames of commands that are no responses.

MaxRun == 4

\* An end-of-block run of n start tokens.
Run(n) == [k \in 1 .. n |-> START_TOKEN]

\* Commands a device does not answer with.
OtherCommands == CommandValues \ (ResponseCommands \cup {EXTENSION})

\* Bytes after a start token that Command(c) rejects, and EXTENSION.
InvalidCommandBytes == {9, 16, ESCAPE_TOKEN, EXTENSION}

\* The frame of d with a checksum that is not the one of its body.
BadWire(d) ==
    <<START_TOKEN>>
        \o Escape(FrameBody(d.command, d.oid, d.payload, d.address)
                  \o Pack16((CRC16(FrameBody(d.command, d.oid, d.payload,
                                             d.address)) + 1) % 65536))

\* A frame followed by an end-of-block run of three or more start tokens.
InitTrailingRun ==
    /\ \E d \in FrameDescs, n \in 3 .. MaxRun :
          sent = <<d>> /\ noise = Run(n) /\ stream = Wire(d) \o Run(n)
    /\ avail = Len(stream)
    /\ parser = NewParser(FALSE)

\* Two frames with an end-of-block run of two or more start tokens between.
InitRunBetween ==
    /\ \E d1 \in PairDescs, d2 \in PairDescs, n \in 2 .. MaxRun :
          /\ sent = <<d1, d2>>
          /\ noise = Run(n)
          /\ stream = Wire(d1) \o Run(n) \o Wire(d2)
    /\ avail = Len(stream)
    /\ parser = NewParser(FALSE)

\* Garbage only, the bytes of test_parser_garbage_data among it; any
\* non-empty prefix of it has arrived.
InitGarbage ==
    /\ noise \in (NoiseSeqs \ {<<>>}) \cup {<<0, 0, 255, 255, 1>>}
    /\ sent = <<>>
    /\ stream = noise
    /\ avail \in 1 .. Len(stream)
    /\ parser = NewParser(FALSE)

\* A frame and garbage behind it.
InitFrameGarbage ==
    /\ noise \in NoiseSeqs \ {<<>>}
    /\ \E d \in PairDescs : sent = <<d>> /\ stream = Wire(d) \o noise
    /\ avail = Len(stream)
    /\ parser = NewParser(FALSE)

\* A whole frame, its checksum right or wrong, for a strict and for a
\* lenient parser.
InitCrcCheck ==
    /\ noise = <<>>
    /\ \E d \in FrameDescs : sent = <<d>> /\ stream \in {Wire(d), BadWire(d)}
    /\ avail = Len(stream)
    /\ \E ignore_crc \in BOOLEAN : parser = NewParser(ignore_crc)

\* A start token, a byte that is no command, and up to two bytes more; the
\* start token and the byte have arrived, the rest may have.
InitInvalidCommand ==
    /\ noise = <<>>
    /\ sent = <<>>
    /\ \E c \in InvalidCommandBytes, tail \in SeqsUpTo({0, 4}, 2) :
          stream = <<START_TOKEN>> \o Escape(<<c>> \o tail)
    /\ avail \in 2 .. Len(stream)
    /\ \/ At(stream, 1) # ESCAPE_TOKEN
       \/ avail >= 3
    /\ parser = NewParser(FALSE)

\* A well-formed frame of a command that is no response.
InitOtherCommand ==
    /\ noise = <<>>
    /\ \E c \in OtherCommands, o \in ObjectIds,
          pl \in SeqsUpTo(PayloadBytes, MaxPairPayloadLen) :
          /\ sent = <<[command |-> c, oid |-> o, payload |-> pl,
                       address |-> IF is_plant(c) THEN PlantAddress ELSE 0]>>
          /\ stream = Wire(sent[1])
    /\ avail = Len(stream)
    /\ parser = NewParser(FALSE)

EdgeInit ==
    /\ \/ InitTrailingRun
       \/ InitRunBetween
       \/ InitGarbage
       \/ InitFrameGarbage
       \/ InitCrcCheck
       \/ InitInvalidCommand
       \/ InitOtherCommand
    /\ results = <<>>
    /\ reader = NewReader(0)
    /\ script = <<>>
    /\ sock = <<>>
    /\ call = NoCall
    /\ history = <<>>
    /\ delivered = <<>>
    /\ session = NoSession
    /\ scope = NoScope
    /\ dump = NoDump
    /\ monitor = NoMonitor

EdgeSpec == EdgeInit /\ [][Next]_vars

\* ------------------------------------------------------- reader harness

MaxChunks == 2
MaxReaderCalls == 2
MaxFrames == 2
SmallBuffer == 13
LargeBuffer == 64

\* Buffer sizes: one that fills up and is compacted, and one more than twice
\* as long as any stream sent, which never is.
BufferSizes == {SmallBuffer, LargeBuffer}

\* The frames the reader is sent: without payload, and with a two-byte
\* payload; the second object id's two-byte frame has an escaped CRC byte.
ReaderDescs ==
    {d \in FrameDescs : d.command = RESPONSE /\ d.payload \in {<<>>, <<0, 2>>}}

\* The garbage bytes of the reader's tests.
ReaderNoise == {<<>>, <<0, 1, 0>>}

\* All ways to cut s into at most m non-empty chunks.
RECURSIVE Chunkings(_, _)
Chunkings(s, m) ==
    IF m <= 1 \/ Len(s) <= 1 THEN {<<s>>}
    ELSE {<<s>>} \cup
         UNION {{<<SubSeq(s, 1, k)>> \o rest :
                    rest \in Chunkings(SubSeq(s, k + 1, Len(s)), m - 1)} :
                k \in 1 .. Len(s) - 1}

\* The script that delivers the chunks one per read.
ScriptOf(chunks) == [k \in 1 .. Len(chunks) |-> DataItem(chunks[k])]

\* The same script with a read that times out after the first chunk.
WithTimeout(chunks) ==
    <<DataItem(chunks[1]), TimeoutItem>> \o Tail(ScriptOf(chunks))

\* Two frames with optional noise between them, in every chunking.
InitReaderTwoFrames ==
    \E d1 \in ReaderDescs, d2 \in ReaderDescs, gap \in ReaderNoise :
        /\ noise = <<>>
        /\ sent = <<d1, d2>>
        /\ stream = Wire(d1) \o gap \o Wire(d2)
        /\ \E chunks \in Chunkings(stream, MaxChunks) : script = ScriptOf(chunks)

\* One frame with optional noise before it, in every chunking, with and
\* without a timeout between the chunks.
InitReaderOneFrame ==
    \E d \in ReaderDescs, lead \in ReaderNoise :
        /\ noise = lead
        /\ sent = <<d>>
        /\ stream = lead \o Wire(d)
        /\ \E chunks \in Chunkings(stream, MaxChunks) :
              \/ script = ScriptOf(chunks)
              \/ Len(chunks) > 1 /\ script = WithTimeout(chunks)

ReaderInit ==
    /\ InitReaderTwoFrames \/ InitReaderOneFrame
    /\ \E size \in BufferSizes : reader = NewReader(size)
    /\ sock = script
    /\ call = NoCall
    /\ history = <<>>
    /\ delivered = <<>>
    /\ session = NoSession
    /\ scope = NoScope
    /\ dump = NoDump
    /\ monitor = NoMonitor
    /\ avail = 0
    /\ parser = NewParser(FALSE)
    /\ results = <<>>

\* reader.register_callback(fn), fn recording the frames it is given.
RegisterCallback ==
    /\ ~call.active
    /\ ~reader.on_frame_received
    /\ history = <<>>
    /\ reader' = [reader EXCEPT !.on_frame_received = TRUE]
    /\ UNCHANGED <<monitor, dump, scope, noise, sent, stream, script, session, sock, call, history, delivered>>
    /\ UNCHANGED parserVars

\* The caller calls reader.recv_frame(no_frames): the call's first lines.
RecvFrame(no_frames) ==
    /\ ~call.active
    /\ Len(history) < MaxReaderCalls
    /\ call' = EnterCall(reader, no_frames)
    /\ UNCHANGED <<monitor, dump, scope, noise, sent, stream, script, session, reader, sock, history, delivered>>
    /\ UNCHANGED parserVars

\* The pass has ended with m: the loop goes on, or the call ends.
Step(m) ==
    /\ reader' = m.reader
    /\ sock' = m.sock
    /\ call' = IF m.done = "" THEN m.call ELSE NoCall
    /\ history' = IF m.done = "" THEN history
                  ELSE Append(history,
                           [no_frames |-> call.no_frames, done |-> m.done,
                            responses |-> ResponsesOf(m),
                            callback |-> reader.on_frame_received,
                            parsed |-> m.call.parsed,
                            handed |-> m.call.handed])
    /\ delivered' = delivered \o m.handed
                        \o (IF m.done = "" THEN <<>> ELSE ResponsesOf(m))

\* One pass through the while loop of the running call, and the call's end
\* when the pass returns or raises.
Iterate ==
    /\ call.active
    /\ Step(PassOf(reader, sock, call))
    /\ UNCHANGED <<monitor, dump, scope, noise, sent, stream, script, session>>
    /\ UNCHANGED parserVars

ReaderNext ==
    \/ RegisterCallback
    \/ \E n \in 0 .. MaxFrames : RecvFrame(n)
    \/ Iterate

ReaderSpec == ReaderInit /\ [][ReaderNext]_vars

\* ------------------------------------------- reader harness, unknown ids
\* The reader's steps on streams in which a frame has an object id the
\* registry does not know.

UnknownId == 305419896

\* The frames of the reader harness, and the same frames with the unknown id.
OidDescs ==
    ReaderDescs \cup {[d EXCEPT !.oid = UnknownId] : d \in ReaderDescs}

\* Two frames, one of them at least with the unknown id, in every chunking.
InitOidTwoFrames ==
    \E d1 \in OidDescs, d2 \in OidDescs :
        /\ UnknownId \in {d1.oid, d2.oid}
        /\ noise = <<>>
        /\ sent = <<d1, d2>>
        /\ stream = Wire(d1) \o Wire(d2)
        /\ \E chunks \in Chunkings(stream, MaxChunks) : script = ScriptOf(chunks)

\* One frame with the unknown id, with optional noise before it.
InitOidOneFrame ==
    \E d \in OidDescs, lead \in ReaderNoise :
        /\ d.oid = UnknownId
        /\ noise = lead
        /\ sent = <<d>>
        /\ stream = lead \o Wire(d)
        /\ \E chunks \in Chunkings(stream, MaxChunks) : script = ScriptOf(chunks)

OidInit ==
    /\ InitOidTwoFrames \/ InitOidOneFrame
    /\ \E size \in BufferSizes : reader = NewReader(size)
    /\ sock = script
    /\ call = NoCall
    /\ history = <<>>
    /\ delivered = <<>>
    /\ session = NoSession
    /\ scope = NoScope
    /\ dump = NoDump
    /\ monitor = NoMonitor
    /\ avail = 0
    /\ parser = NewParser(FALSE)
    /\ results = <<>>

OidSpec == OidInit /\ [][ReaderNext]_vars

\* -------------------------------------------------------- scope harness
\* with RctReader(...) as reader: recv_frame calls, as in the reader
\* harness, inside the block.

ScopeInit ==
    /\ InitReaderTwoFrames \/ InitReaderOneFrame
    /\ reader = NewReader(LargeBuffer)
    /\ sock = script
    /\ call = NoCall
    /\ history = <<>>
    /\ delivered = <<>>
    /\ session = NoSession
    /\ scope = NewScope
    /\ dump = NoDump
    /\ monitor = NoMonitor
    /\ avail = 0
    /\ parser = NewParser(FALSE)
    /\ results = <<>>

\* The with statement calls __enter__, and connect ends with outcome.
EnterScope(outcome) ==
    /\ scope.pc = "new"
    /\ scope' = enter(scope, outcome)
    /\ UNCHANGED <<monitor, dump, noise, sent, stream, script, session>>
    /\ UNCHANGED readerVars
    /\ UNCHANGED parserVars

\* A statement of the block: the reader harness's steps.
ScopeBody ==
    /\ scope.pc = "body"
    /\ ReaderNext

\* What the recv_frame call that ended last raised, "" if it returned or if
\* none was made.
LastRaised ==
    IF history # <<>> /\ history[Len(history)].done \notin {"returned", "closed"}
    THEN history[Len(history)].done
    ELSE ""

\* The block is left, by its end or by the exception of the call that ended
\* last, and the with statement calls __exit__.
ExitScope ==
    /\ scope.pc = "body"
    /\ ~call.active
    /\ scope' = exit(scope, LastRaised)
    /\ UNCHANGED <<monitor, dump, noise, sent, stream, script, session>>
    /\ UNCHANGED readerVars
    /\ UNCHANGED parserVars

ScopeNext ==
    \/ \E outcome \in ConnectOutcomes : EnterScope(outcome)
    \/ ScopeBody
    \/ ExitScope

ScopeSpec == ScopeInit /\ [][ScopeNext]_vars

\* -------------------------------------------------- read_frames harness

MaxRequests == 2

\* The object ids the caller asks for, in the order it asks.
RequestSeqs == SeqsUpTo(ObjectIds, MaxRequests) \ {<<>>}

\* A reader with the large buffer and a scripted socket; the inverter's
\* responses are in the script, whatever the caller asks for.
ReadInit ==
    /\ InitReaderTwoFrames \/ InitReaderOneFrame
    /\ reader = NewReader(LargeBuffer)
    /\ sock = script
    /\ call = NoCall
    /\ history = <<>>
    /\ delivered = <<>>
    /\ session = NoSession
    /\ scope = NoScope
    /\ dump = NoDump
    /\ monitor = NoMonitor
    /\ avail = 0
    /\ parser = NewParser(FALSE)
    /\ results = <<>>

\* The user installs a callback, which records the frames it is given in
\* delivered, before reading.
InstallCallback ==
    /\ session.pc = "idle"
    /\ session.callback = "none"
    /\ reader' = [reader EXCEPT !.on_frame_received = TRUE]
    /\ session' = [session EXCEPT !.callback = "user", !.user_callback = TRUE]
    /\ UNCHANGED <<monitor, dump, scope, noise, sent, stream, script, sock, call, history, delivered>>
    /\ UNCHANGED parserVars

\* The caller calls reader.read_frames(names), oids being the object ids the
\* registry gives for the names.
ReadFrames(oids) ==
    /\ session.pc = "idle"
    /\ session' = [session EXCEPT !.pc = "send", !.requests = oids]
    /\ UNCHANGED <<monitor, dump, scope, noise, sent, stream, script>>
    /\ UNCHANGED readerVars
    /\ UNCHANGED parserVars

\* read_frames calls _read_frame for the next name: the callback is
\* registered and the READ is sent.
SendRead ==
    /\ session.pc = "send"
    /\ session' = EnterReadFrame(session, session.requests[Len(session.result) + 1])
    /\ reader' = [reader EXCEPT !.on_frame_received = TRUE]
    /\ UNCHANGED <<monitor, dump, scope, noise, sent, stream, script, sock, call, history, delivered>>
    /\ UNCHANGED parserVars

\* while not response_frame: self.recv_frame(1) -- the call is made.
ReadRecvFrame ==
    /\ session.pc = "loop"
    /\ ~call.active
    /\ session.response_frame = <<>>
    /\ call' = EnterCall(reader, 1)
    /\ UNCHANGED <<monitor, dump, scope, noise, sent, stream, script, session, reader, sock, history, delivered>>
    /\ UNCHANGED parserVars

\* A pass of that recv_frame call has ended with m: the frames it handed
\* over went to on_received, and what it raised leaves read_frames.
ReadStep(m) ==
    /\ reader' = m.reader
    /\ sock' = m.sock
    /\ call' = IF m.done = "" THEN m.call ELSE NoCall
    /\ session' = IF m.done \in {"", "closed", "returned"}
                  THEN OnReceivedAll(session, m.handed)
                  ELSE [OnReceivedAll(session, m.handed) EXCEPT
                           !.pc = "raised", !.error = m.done]

\* One pass through the while loop of the recv_frame call _read_frame made.
ReadIterate ==
    /\ session.pc = "loop"
    /\ call.active
    /\ ReadStep(PassOf(reader, sock, call))
    /\ UNCHANGED <<monitor, dump, scope, noise, sent, stream, script, history, delivered>>
    /\ UNCHANGED parserVars

\* The while loop of _read_frame ends with the response captured.
ReadReturn ==
    /\ session.pc = "loop"
    /\ ~call.active
    /\ session.response_frame # <<>>
    /\ session' = ReturnReadFrame(session)
    /\ UNCHANGED <<monitor, dump, scope, noise, sent, stream, script>>
    /\ UNCHANGED readerVars
    /\ UNCHANGED parserVars

ReadNext ==
    \/ InstallCallback
    \/ \E oids \in RequestSeqs : ReadFrames(oids)
    \/ SendRead
    \/ ReadRecvFrame
    \/ ReadIterate
    \/ ReadReturn

ReadSpec == ReadInit /\ [][ReadNext]_vars

\* The remote end has closed the connection: every chunk of the script was
\* read, and whatever the socket is asked for now, it gives zero bytes.
RemoteClosed ==
    sock = <<>>

\* A pass of recv_frame made after the remote end has closed.
ReadIterateClosed ==
    RemoteClosed /\ ReadIterate

\* The program runs on: after the remote end has closed, _read_frame is never
\* held up for ever before its next call of recv_frame, before the next pass
\* of that call, or before its return.
ReadLiveSpec ==
    /\ ReadSpec
    /\ WF_vars(ReadRecvFrame)
    /\ WF_vars(ReadIterateClosed)
    /\ WF_vars(ReadReturn)

\* ---------------------------------------- parser harness, growing buffer
\* A caller that parses whenever it likes while the second of two frames is
\* still on its way: the first frame has arrived, the second arrives whole,
\* and rewinded() is never called.

MaxGrowCalls == 4

GrowInit ==
    /\ noise = <<>>
    /\ \E d1 \in PairDescs, d2 \in PairDescs :
          /\ sent = <<d1, d2>>
          /\ stream = Wire(d1) \o Wire(d2)
          /\ avail = Len(Wire(d1))
    /\ parser = NewParser(FALSE)
    /\ results = <<>>
    /\ reader = NewReader(0)
    /\ script = <<>>
    /\ sock = <<>>
    /\ call = NoCall
    /\ history = <<>>
    /\ delivered = <<>>
    /\ session = NoSession
    /\ scope = NoScope
    /\ dump = NoDump
    /\ monitor = NoMonitor

\* The caller calls parser.parse(buffer[0:avail]) once more.
GrowParseCall ==
    /\ Len(results) < MaxGrowCalls
    /\ Record(parse(parser, SubSeq(stream, 1, avail)))
    /\ UNCHANGED <<monitor, dump, scope, noise, sent, stream, script, session, avail>>
    /\ UNCHANGED readerVars

GrowNext == GrowParseCall \/ Receive

GrowSpec == GrowInit /\ [][GrowNext]_vars

\* ------------------------------------- parser harness, short length field
\* The parser's caller on a frame whose length field is smaller than the
\* four bytes of an id (eight with a plant address): start token, command,
\* LEN, LEN bytes and the CRC of these, with a well-formed frame behind it.

MaxShortLen == 3

\* The unescaped body that follows the start token: command, LEN, LEN bytes.
ShortBody(command, content) ==
    <<command>>
    \o (IF is_long(command) THEN Pack16(Len(content)) ELSE <<Len(content)>>)
    \o content

\* The frame on the wire, its checksum correct.
ShortWire(command, content) ==
    <<START_TOKEN>> \o Escape(ShortBody(command, content)
                               \o Pack16(CRC16(ShortBody(command, content))))

\* The four bytes the parser reads as the id, and as the address in a plant
\* frame, are a number below 2^31.
SmallIdAndAddress(unescaped, command) ==
    /\ At(unescaped, IF is_long(command) THEN 4 ELSE 3) < 128
    /\ is_plant(command) => At(unescaped, IF is_long(command) THEN 8 ELSE 7) < 128

\* The short frame has arrived, the frame behind it has or has not.
ShortInit ==
    /\ noise = <<>>
    /\ \E c \in ResponseCommands, content \in SeqsUpTo({0, 2}, MaxShortLen),
          d \in ReaderDescs :
          /\ sent = <<d>>
          /\ stream = ShortWire(c, content) \o Wire(d)
          /\ SmallIdAndAddress(unescape_buffer(stream, <<>>, 0).buffer, c)
          /\ avail \in {Len(ShortWire(c, content)), Len(stream)}
    /\ parser = NewParser(FALSE)
    /\ results = <<>>
    /\ reader = NewReader(0)
    /\ script = <<>>
    /\ sock = <<>>
    /\ call = NoCall
    /\ history = <<>>
    /\ delivered = <<>>
    /\ session = NoSession
    /\ scope = NoScope
    /\ dump = NoDump
    /\ monitor = NoMonitor

ShortSpec == ShortInit /\ [][Next]_vars

\* ---------------------------------------------------- parsedump harness
\* parsedump on files made of frames, garbage, runs of start tokens, bytes
\* that are no command behind a start token, and a frame with a wrong
\* checksum.

MaxDumpSegments == 3

\* The frames in the files: one object id, payloads without and with
\* escaped bytes, and one frame of an id the registry does not know.
DumpDescs ==
    {d \in FrameDescs :
        /\ d.command = RESPONSE
        /\ d.oid = 908318762
        /\ d.payload \in {<<>>, <<START_TOKEN>>, <<ESCAPE_TOKEN, START_TOKEN>>}}
    \cup {[command |-> RESPONSE, oid |-> UnknownId, payload |-> <<>>, address |-> 0]}

\* What a file is made of.
DumpSegments ==
    {Wire(d) : d \in DumpDescs}
    \cup {BadWire(d) : d \in {e \in DumpDescs : e.payload = <<START_TOKEN>>}}
    \cup {<<START_TOKEN, 9>>, <<START_TOKEN, EXTENSION, 0>>,
          <<START_TOKEN, ESCAPE_TOKEN, ESCAPE_TOKEN>>}
    \cup {<<0>>, <<0, 1, 0>>, Run(3)}

\* The files: up to n segments one behind the other.
RECURSIVE DumpFiles(_)
DumpFiles(n) ==
    IF n = 0 THEN {<<>>}
    ELSE DumpFiles(n - 1)
         \cup {f \o seg : f \in DumpFiles(n - 1) \ {<<>>}, seg \in DumpSegments}
         \cup DumpSegments

DumpInit ==
    /\ stream \in DumpFiles(MaxDumpSegments) \ {<<>>}
    /\ avail = Len(stream)
    /\ noise = <<>>
    /\ sent = <<>>
    /\ parser = NewParser(FALSE)
    /\ results = <<>>
    /\ reader = NewReader(0)
    /\ script = <<>>
    /\ sock = <<>>
    /\ call = NoCall
    /\ history = <<>>
    /\ delivered = <<>>
    /\ session = NoSession
    /\ scope = NoScope
    /\ monitor = NoMonitor
    /\ dump = StartDump

\* The turn began with parse ending with r and has ended with t.
DumpRecord(r, t) ==
    /\ parser' = t.parser
    /\ dump' = t.dump
    /\ results' = Append(results,
           [outcome |-> r.outcome, frame |-> r.frame, avail |-> avail,
            before |-> parser.current_pos, after |-> t.parser.current_pos,
            complete_frame |-> t.parser.complete_frame])

\* One turn of the while loop of main.  The loop makes at most
\* len(buffer) + 2 turns; the guard keeps the turns counted finite.
DumpLoop ==
    /\ dump.pc = "loop"
    /\ Len(results) < Len(stream) + 2
    /\ \E decoded \in DecodeOutcomes :
          DumpRecord(parse(parser, stream),
                     DumpTurn(dump, parse(parser, stream), decoded))
    /\ UNCHANGED <<monitor, scope, noise, sent, stream, script, session, avail>>
    /\ UNCHANGED readerVars

DumpNext == DumpLoop

\* main runs by itself: a turn that can be made is made.
\* ENABLED <<DumpLoop>>_vars, written out: parser.parse returns or raises on
\* every buffer and every turn lengthens results, so a turn can be taken
\* exactly when the loop is running.
DumpLoopEnabled ==
    /\ dump.pc = "loop"
    /\ Len(results) < Len(stream) + 2

\* The program is one thread that takes the next turn of the while loop as
\* long as finished is false: WF_vars(DumpLoop), with the enabling condition
\* in the form above.
DumpLiveSpec ==
    /\ DumpInit
    /\ [][DumpNext]_vars
    /\ ([]<>(~DumpLoopEnabled) \/ []<><<DumpLoop>>_vars)

\* ------------------------------------------------------ monitor harness
\* monitor_inverter against a device that would deliver the streams of the
\* reader harness.

MonitorInit ==
    /\ InitReaderTwoFrames \/ InitReaderOneFrame
    /\ reader = MonitorReader
    /\ sock = script
    /\ call = NoCall
    /\ history = <<>>
    /\ delivered = <<>>
    /\ session = NoSession
    /\ scope = NoScope
    /\ dump = NoDump
    /\ monitor = StartMonitor
    /\ avail = 0
    /\ parser = NewParser(FALSE)
    /\ results = <<>>

\* The pass has ended with t.
MonitorDone(t) ==
    /\ monitor' = t.monitor
    /\ scope' = t.scope

\* One pass of the outer loop of monitor_inverter.
MonitorLoop ==
    /\ monitor.pc = "loop"
    /\ \E outcome \in ConnectOutcomes :
          MonitorDone(MonitorPass(monitor, scope, MonitorReader, outcome))
    /\ reader' = MonitorReader
    /\ UNCHANGED <<dump, noise, sent, stream, script, session>>
    /\ UNCHANGED <<sock, call, history, delivered>>
    /\ UNCHANGED parserVars

MonitorNext == MonitorLoop

MonitorSpec == MonitorInit /\ [][MonitorNext]_vars

\* --------------------------------------------------- parser properties

\* Call r returned the frame the sender built from d.
Returns(r, d) ==
    /\ r.outcome = "Frame"
    /\ r.frame.oid = d.oid
    /\ r.frame.payload = d.payload
    /\ r.frame.address = d.address
    /\ r.frame.crc_ok

\* The buffer held exactly one whole frame when a fresh parser was first called.
WholeFrameParsed ==
    /\ noise = <<>>
    /\ Len(sent) = 1
    /\ Len(results) = 1
    /\ results[1].avail = Len(stream)

\* C1 (framing round-trip): parse(make_frame(cmd, id, payload, addr)) on a
\* fresh parser returns a frame with that id, payload and address and
\* crc_ok true, and leaves complete_frame true.
C1_FramingRoundTrip ==
    WholeFrameParsed =>
        /\ Returns(results[1], sent[1])
        /\ results[1].complete_frame

\* C2 (multiple frames): two parse calls on the buffer F1 || F2 return F1 and
\* then F2, both with crc_ok true, and current_pos does not decrease.
C2_MultipleFrames ==
    (Len(sent) = 2 /\ Len(results) = 2) =>
        /\ Returns(results[1], sent[1])
        /\ Returns(results[2], sent[2])
        /\ results[1].before <= results[1].after
        /\ results[1].after <= results[2].after

\* C3 (chunking): parse on a proper prefix F[..k] returns None with
\* complete_frame false and raises nothing, and the next parse, on the whole
\* of F, returns what a fresh parser returns for F.
C3_Chunking ==
    (noise = <<>> /\ Len(sent) = 1 /\ Len(results) >= 1
        /\ results[1].avail < Len(stream)) =>
        /\ results[1].outcome = "None"
        /\ ~results[1].complete_frame
        /\ (Len(results) = 2 /\ results[2].avail = Len(stream)) =>
               LET whole == parse(NewParser(FALSE), stream)
               IN  /\ results[2].outcome = whole.outcome
                   /\ results[2].frame = whole.frame

\* C4 (resynchronisation): with leading noise N that holds no unescaped 0x2B
\* (N may end with 0x2D), parse(N || F) returns the frame parse(F) returns.
C4_Resynchronisation ==
    (noise # <<>> /\ NoUnescapedStart(noise) /\ Len(results) = 1) =>
        LET alone == parse(NewParser(FALSE), Wire(sent[1]))
        IN  /\ results[1].outcome = alone.outcome
            /\ results[1].frame = alone.frame

\* C5 (escape round-trip): a payload holding 0x2B or 0x2D bytes, adjacent
\* ones included, comes back from parse equal to the original, with crc_ok.
C5_EscapeRoundTrip ==
    (WholeFrameParsed
        /\ \E k \in 1 .. Len(sent[1].payload) :
               sent[1].payload[k] \in {START_TOKEN, ESCAPE_TOKEN}) =>
        /\ results[1].outcome = "Frame"
        /\ results[1].frame.payload = sent[1].payload
        /\ results[1].frame.crc_ok

\* --------------------------------------------------- reader properties

\* Frame f is the frame the sender built from d.
IsFrameOf(f, d) ==
    /\ f.command = d.command
    /\ f.oid = d.oid
    /\ f.payload = d.payload
    /\ f.address = d.address
    /\ f.crc_ok

\* The frames are those built from descs, in the same order.
Matches(frames, descs) ==
    /\ Len(frames) = Len(descs)
    /\ \A k \in 1 .. Len(frames) : IsFrameOf(frames[k], descs[k])

\* No read of the script times out.
NoTimeouts == \A k \in 1 .. Len(script) : ~script[k].timeout

\* The first recv_frame call has ended and no other has been made.
FirstCallEnded == Len(history) = 1 /\ ~call.active

\* What the same first call gives a reader whose buffer is never compacted.
LargeBufferCall ==
    recv_frame([NewReader(LargeBuffer) EXCEPT
                   !.on_frame_received = reader.on_frame_received],
               script, history[1].no_frames)

\* C6 (buffer compaction correctness): for every stream and every chunking,
\* the frames a recv_frame call delivers with the small, compacted buffer are
\* the frames, in the same order, that it delivers with the large buffer
\* that is never compacted.
C6_CompactionCorrect ==
    (FirstCallEnded /\ Len(reader.buffer) = SmallBuffer /\ NoTimeouts) =>
        delivered = LargeBufferCall.handed \o LargeBufferCall.responses

\* C7 (no frame lost between calls): the frames handed to the caller are
\* always the first frames sent, once each and in arrival order, and when a
\* call has ended at the remote close with the whole stream delivered by the
\* socket, every frame sent has been handed to the caller.
C7_NoFrameLost ==
    NoTimeouts =>
        /\ Len(delivered) <= Len(sent)
        /\ Matches(delivered, SubSeq(sent, 1, Len(delivered)))
        /\ (/\ ~call.active
            /\ Len(history) >= 1
            /\ history[Len(history)].done = "closed"
            /\ sock = <<>>) => Len(delivered) = Len(sent)

\* The first call timed out with part of the frame, and nothing but the
\* frame's first bytes, in the receive buffer.
TimedOutInFrame ==
    /\ Len(sent) = 1
    /\ noise = <<>>
    /\ Len(script) = 3
    /\ script[2].timeout
    /\ Len(history) >= 1
    /\ history[1].done = "TimeoutError"

\* C8 (timeout is resumable): when recv_frame fails with a timeout while a
\* partial frame is in the receive buffer, the buffer still holds the partial
\* frame, and the retried recv_frame that receives the rest of the frame
\* delivers the frame.
C8_TimeoutResumable ==
    TimedOutInFrame =>
        /\ FirstCallEnded =>
              SubSeq(reader.buffer, 1, Len(script[1].data)) = script[1].data
        /\ (Len(history) = 2 /\ sock = <<>>) => Matches(delivered, sent)

\* C9 (recv_frame(n), n > 0, no callback): the call returns when n frames
\* have been parsed and its result is the first n frames of the stream, in
\* arrival order, for every chunking.
C9_RecvFrameN ==
    (/\ FirstCallEnded
     /\ NoTimeouts
     /\ ~reader.on_frame_received
     /\ history[1].no_frames > 0
     /\ history[1].no_frames <= Len(sent)) =>
        /\ history[1].done = "returned"
        /\ Matches(history[1].responses, SubSeq(sent, 1, history[1].no_frames))

\* C10 (recv_frame(0), no callback): the call returns when the socket read
\* returns zero bytes, and the list returned holds every frame received
\* during the call, in arrival order.
C10_RecvFrameZero ==
    (/\ FirstCallEnded
     /\ NoTimeouts
     /\ ~reader.on_frame_received
     /\ history[1].no_frames = 0
     /\ sock = <<>>) =>
        /\ history[1].done = "closed"
        /\ Matches(history[1].responses, sent)

\* What line 229-232 of recv_frame do with the frames of one call: with a
\* callback every frame goes to it and none to the list, without one every
\* frame goes to the list and none to a callback.
CallbackMode(callback, parsed, handed, responses) ==
    IF callback
    THEN handed = parsed /\ responses = <<>>
    ELSE responses = parsed /\ handed = <<>>

\* C13: while a callback is registered, recv_frame calls it once for each
\* frame it parses, in the order parsed, and its list stays empty; while none
\* is registered, each parsed frame is appended to the list it returns and
\* nothing is called.  A call that raises returns no list.
C13_CallbackMode ==
    /\ call.active =>
          CallbackMode(reader.on_frame_received, call.parsed, call.handed,
                       call.responses)
    /\ \A k \in 1 .. Len(history) :
          IF history[k].done \in {"returned", "closed"}
          THEN CallbackMode(history[k].callback, history[k].parsed,
                            history[k].handed, history[k].responses)
          ELSE history[k].handed =
                   (IF history[k].callback THEN history[k].parsed ELSE <<>>)

\* With a callback registered, a call has parsed two frames and returned.
C13_Witness ==
    /\ \E k \in 1 .. Len(history) :
          /\ history[k].done = "returned"
          /\ Len(history[k].parsed) = MaxFrames
    /\ reader.on_frame_received

(***************************************************************************)
(* read_frames properties (ReadSpec)                                       *)
(***************************************************************************)

\* C11: read_frames sends one READ frame per requested object id, the next
\* one only after the previous request was answered, and the responses it
\* has collected are in request order, the i-th having the i-th requested
\* id; when it returns there is exactly one response per request, and a
\* frame with another id is never among them.
C11_RequestResponseCorrelation ==
    /\ Len(session.result) <= Len(session.requests)
    /\ \A i \in 1..Len(session.result) :
          session.result[i].oid = session.requests[i]
    /\ session.pc = "returned" => Len(session.result) = Len(session.requests)
    /\ Len(session.reads_sent) <= Len(session.requests)
    /\ Len(session.reads_sent) \in {Len(session.result), Len(session.result) + 1}
    /\ \A i \in 1..Len(session.reads_sent) :
          session.reads_sent[i] = make_frame(READ, session.requests[i], <<>>, 0)
    /\ session.response_frame # <<>> =>
          session.response_frame[1].oid \in session.wanted_ids

\* read_frames has returned although a response with another id arrived
\* before the wanted one.
C11_Witness ==
    /\ session.pc = "returned"
    /\ session.unmatched # <<>>
    /\ session.result # <<>>

\* C12: once the remote end has closed the connection while _read_frame is
\* waiting for its response, the call ends: it returns a frame or raises.
C12_RemoteCloseEndsRead ==
    (session.pc = "loop" /\ RemoteClosed)
        ~> (session.pc \in {"send", "returned", "raised"})

\* C14: when the user has installed a callback, the responses that arrive
\* during read_frames with an id other than the requested one are the frames
\* that callback was given, in arrival order.
C14_UnmatchedReachCallback ==
    session.user_callback => delivered = session.unmatched

\* ------------------------------------- parser properties, edge cases

\* The buffer is one frame and an end-of-block run of three or more start
\* tokens behind it.
TrailingRunCase ==
    /\ Len(sent) = 1
    /\ Len(noise) >= 3
    /\ noise = Run(Len(noise))
    /\ stream = Wire(sent[1]) \o noise

\* C15: when the first parse of F || 2B 2B 2B (or a longer run) has returned
\* a frame, the second parse returns None, raises nothing, leaves
\* complete_frame false and current_pos at the end of the buffer.
C15_TrailingRunSkipped ==
    (TrailingRunCase /\ Len(results) >= 2 /\ results[1].outcome = "Frame") =>
        /\ results[2].outcome = "None"
        /\ ~results[2].complete_frame
        /\ results[2].after = Len(stream)

\* The frame was parsed, and the run behind it has been parsed as well.
C15_Witness ==
    /\ TrailingRunCase
    /\ Len(results) = 2
    /\ results[1].outcome = "Frame"
    /\ results[1].after = Len(Wire(sent[1]))
    /\ results[2].before < Len(stream)

\* The buffer is two frames with an end-of-block run of two or more start
\* tokens between them.
RunBetweenCase ==
    /\ Len(sent) = 2
    /\ Len(noise) >= 2
    /\ noise = Run(Len(noise))
    /\ stream = Wire(sent[1]) \o noise \o Wire(sent[2])

\* C16: two parses of F1 || E || F2, E a run of two or more start tokens,
\* return F1 and then F2.
C16_RunIsPadding ==
    (RunBetweenCase /\ Len(results) = 2) =>
        /\ Returns(results[1], sent[1])
        /\ Returns(results[2], sent[2])

\* The buffer is one whole frame with a wrong checksum.
BadCrcCase ==
    /\ Len(sent) = 1
    /\ noise = <<>>
    /\ stream = BadWire(sent[1])

\* The buffer is one whole frame with the right checksum.
GoodCrcCase ==
    /\ Len(sent) = 1
    /\ noise = <<>>
    /\ stream = Wire(sent[1])

\* C17: the first parse of a whole frame with a wrong checksum raises
\* FrameCRCMismatch when ignore_crc_mismatch is false; when it is true the
\* parse returns the frame with crc_ok false and current_pos behind the
\* frame.  A frame returned has crc_ok true exactly when the checksum on the
\* wire is the checksum of its body: false for the frame sent with a wrong
\* checksum, true for the frame sent with the right one.
C17_CrcMismatch ==
    /\ (BadCrcCase /\ Len(results) >= 1) =>
          IF parser.ignore_crc_mismatch
          THEN /\ results[1].outcome = "Frame"
               /\ results[1].frame.oid = sent[1].oid
               /\ results[1].frame.payload = sent[1].payload
               /\ ~results[1].frame.crc_ok
               /\ results[1].after = Len(stream)
          ELSE results[1].outcome = "FrameCRCMismatch"
    /\ (GoodCrcCase /\ Len(results) >= 1 /\ results[1].outcome = "Frame"
          /\ results[1].frame.oid = sent[1].oid
          /\ results[1].frame.payload = sent[1].payload) =>
          results[1].frame.crc_ok

\* The stream begins with a start token, and the byte behind it, unescaped,
\* is c.
CommandByteIs(c) ==
    /\ sent = <<>>
    /\ noise = <<>>
    /\ Len(stream) >= 1 + Len(Escape(<<c>>))
    /\ Head(stream) = START_TOKEN
    /\ SubSeq(stream, 2, 1 + Len(Escape(<<c>>))) = Escape(<<c>>)

\* C18: whenever the byte behind the accepted start token is in the buffer
\* and is EXTENSION or no command, parse raises InvalidCommand carrying that
\* byte, and current_pos is what it was.
C18_InvalidCommand ==
    \A c \in InvalidCommandBytes :
        (/\ CommandByteIs(c)
         /\ Len(results) >= 1
         /\ results[1].avail >= 1 + Len(Escape(<<c>>))) =>
            /\ results[1].outcome = "InvalidCommand"
            /\ results[1].frame.command = c
            /\ results[1].after = results[1].before

\* C19: each frame a parse returns has one of the four response commands.
C19_OnlyResponseCommands ==
    \A k \in 1 .. Len(results) :
        results[k].outcome = "Frame" =>
            results[k].frame.command \in ResponseCommands

\* No byte of buffer from index pos on is an unescaped start token: each
\* 0x2B there follows a 0x2D.
NoStartFrom(buffer, pos) ==
    \A i \in pos .. Len(buffer) - 1 :
        At(buffer, i) = START_TOKEN => (i > 0 /\ At(buffer, i - 1) = ESCAPE_TOKEN)

\* C20: a parse of a buffer without an unescaped start token from current_pos
\* on returns None, raises nothing, leaves complete_frame false and sets
\* current_pos to the length of the buffer.
C20_GarbageOnly ==
    \A k \in 1 .. Len(results) :
        NoStartFrom(SubSeq(stream, 1, results[k].avail), results[k].before) =>
            /\ results[k].outcome = "None"
            /\ ~results[k].complete_frame
            /\ results[k].after = results[k].avail

\* Garbage was parsed, and more garbage behind it was parsed by a second call.
C20_Witness ==
    /\ sent = <<>>
    /\ stream = noise
    /\ Len(results) = 2
    /\ results[1].avail < results[2].avail
    /\ results[2].before = results[1].avail
    /\ NoStartFrom(stream, 0)

\* --------------------------------------- parser properties, frame fields

\* The frames sent that the frame f returned gives back: command, object id,
\* address and payload are theirs.
SentAs(f) ==
    {j \in 1 .. Len(sent) :
        /\ sent[j].command = f.command
        /\ sent[j].oid = f.oid
        /\ sent[j].address = f.address
        /\ sent[j].payload = f.payload}

\* LEN, the value of the length field in the body of the frame sent as d.
LengthFieldOf(d) ==
    IF is_long(d.command)
    THEN BigEndian(SubSeq(FrameBody(d.command, d.oid, d.payload, d.address), 2, 3))
    ELSE FrameBody(d.command, d.oid, d.payload, d.address)[2]

\* The bytes of the length field: two in a long frame, one in a short one.
LengthBytes(command) == IF is_long(command) THEN 2 ELSE 1

\* C21, as stated: the frame_length of each frame returned counts the
\* unescaped bytes from the command byte through the CRC, the start token
\* left out: 1 + 1 + LEN + 2 for a short frame, 1 + 2 + LEN + 2 for a long
\* one, LEN being the value of the frame's length field.
C21_FrameLength ==
    \A k \in 1 .. Len(results) :
        results[k].outcome = "Frame" =>
            \A j \in SentAs(results[k].frame) :
                results[k].frame.frame_length =
                    1 + LengthBytes(sent[j].command) + LengthFieldOf(sent[j])
                      + FRAME_LENGTH_CRC16

\* C21, amended: the frame_length of each frame returned counts the
\* unescaped bytes from the start token through the CRC, both included:
\* 1 + 1 + 1 + LEN + 2 for a short frame, 1 + 1 + 2 + LEN + 2 for a long one,
\* which is the length of the frame's unescaped body and CRC plus one.
C21_FrameLengthWithStart ==
    \A k \in 1 .. Len(results) :
        results[k].outcome = "Frame" =>
            \A j \in SentAs(results[k].frame) :
                /\ results[k].frame.frame_length =
                       1 + 1 + LengthBytes(sent[j].command)
                         + LengthFieldOf(sent[j]) + FRAME_LENGTH_CRC16
                /\ results[k].frame.frame_length =
                       1 + Len(FrameBody(sent[j].command, sent[j].oid,
                                         sent[j].payload, sent[j].address))
                         + FRAME_LENGTH_CRC16

\* A long plant frame with an escaped payload byte was returned as it was
\* sent, behind a short frame.
C21_Witness ==
    /\ Len(results) = 2
    /\ Len(sent) = 2
    /\ results[1].outcome = "Frame"
    /\ results[2].outcome = "Frame"
    /\ ~is_long(results[1].frame.command)
    /\ results[2].frame.command = PLANT_LONG_RESPONSE
    /\ results[2].frame.payload = <<ESCAPE_TOKEN>>
    /\ 2 \in SentAs(results[2].frame)

\* C22: the frame_type of each frame returned follows from its command:
\* PLANT for PLANT_RESPONSE and PLANT_LONG_RESPONSE, STANDARD for RESPONSE and
\* LONG_RESPONSE; it is never absent.
C22_FrameTypeFromCommand ==
    \A k \in 1 .. Len(results) :
        results[k].outcome = "Frame" =>
            /\ results[k].frame.command \in {PLANT_RESPONSE, PLANT_LONG_RESPONSE}
                  => results[k].frame.frame_type = "PLANT"
            /\ results[k].frame.command \in {RESPONSE, LONG_RESPONSE}
                  => results[k].frame.frame_type = "STANDARD"
            /\ results[k].frame.frame_type # "None"

\* Call r returned normally: it raised nothing.
ReturnedNormally(r) == r.outcome \in {"Frame", "None"}

\* C23: after each parse call that returns normally, complete_frame is true
\* exactly when the call returned a frame and false exactly when it returned
\* None, whatever the buffer and the parser's state before the call.
C23_CompleteFrameFlag ==
    /\ \A k \in 1 .. Len(results) :
          ReturnedNormally(results[k]) =>
              (results[k].complete_frame <=> results[k].outcome = "Frame")
    /\ (Len(results) >= 1 /\ ReturnedNormally(results[Len(results)])) =>
          (parser.complete_frame <=> results[Len(results)].outcome = "Frame")

\* A call on part of a frame returned None, and the next call, on the whole
\* frame, returned the frame.
C23_Witness ==
    /\ Len(results) = 2
    /\ results[1].outcome = "None"
    /\ results[1].avail < Len(stream)
    /\ results[1].avail >= 7
    /\ results[2].outcome = "Frame"

\* ------------------------------------------------------ scope properties

\* The with statement is over: the block was left, or __enter__ raised.
ScopeLeft == scope.pc \in {"exited", "failed"}

\* C24: once the with statement is over, however it was left -- the block
\* ended, a call in the block raised, or connect raised -- the socket that
\* was made for it has been closed.
C24_SocketClosedOnExit ==
    (ScopeLeft /\ scope.created) => scope.closed

\* ------------------------------------------- reader properties, unknown ids

\* What parser.parse(mv) returns in the pass the running call is about to
\* make, given s, the state the head of the pass leaves; no frame when the
\* pass ends before it parses.
ParsedInPass(s) ==
    IF s.done # "" THEN [outcome |-> "None", frame |-> NoFrame]
    ELSE LET r == parse(s.reader.parser, SubSeq(s.reader.buffer, 1, s.call.mv_len))
         IN  [outcome |-> r.outcome, frame |-> r.frame]

\* The pass parses a frame whose object id the registry does not know.
UnknownOidParsed(p) ==
    /\ p.outcome = "Frame"
    /\ p.frame.oid \notin RegistryIds

\* A step of the running call in which the pass parses a frame with an
\* object id the registry does not know: the call ends with InvalidOidError
\* and nothing is handed to the caller.
C25_UnknownOidStep ==
    (call.active /\ UnknownOidParsed(ParsedInPass(ReadIfNeeded(reader, sock, call)))) =>
        /\ ~call'.active
        /\ Len(history') = Len(history) + 1
        /\ history'[Len(history')].done = "InvalidOidError"
        /\ history'[Len(history')].responses = <<>>
        /\ history'[Len(history')].handed = call.handed
        /\ delivered' = delivered

\* C25: the pass of recv_frame that parses a frame with an object id the
\* registry does not know raises InvalidOidError, and the frame is neither
\* given to the callback nor appended to the list: nothing is handed to the
\* caller in that step.
C25_UnknownOid ==
    [][C25_UnknownOidStep]_vars

\* A call with a callback registered handed over a frame of a known id and
\* then raised InvalidOidError on the frame behind it.
C25_Witness ==
    /\ reader.on_frame_received
    /\ Len(history) >= 1
    /\ history[Len(history)].done = "InvalidOidError"
    /\ Len(history[Len(history)].handed) = 1
    /\ Len(sent) = 2
    /\ sent[2].oid = UnknownId
    /\ delivered = history[Len(history)].handed

\* ------------------------------------- parser properties, positions

\* The index in the stream just behind the j-th frame sent, the stream
\* being the noise and then the frames.
RECURSIVE EndOfSent(_)
EndOfSent(j) ==
    IF j = 0 THEN Len(noise) ELSE EndOfSent(j - 1) + Len(Wire(sent[j]))

\* How many of the first k calls returned a frame.
RECURSIVE FramesReturned(_)
FramesReturned(k) ==
    IF k = 0 THEN 0
    ELSE FramesReturned(k - 1) + (IF results[k].outcome = "Frame" THEN 1 ELSE 0)

\* C26: after parse has returned a frame, current_pos is the index in the
\* escaped buffer just behind that frame's CRC, whatever the number of
\* escaped bytes in the frame, whatever garbage lies before it and whatever
\* follows it; when another frame follows, the byte at current_pos is its
\* start token.
C26_PositionAfterFrame ==
    \A k \in 1 .. Len(results) :
        results[k].outcome = "Frame" =>
            /\ results[k].after = EndOfSent(FramesReturned(k))
            /\ results[k].after < results[k].avail =>
                  At(stream, results[k].after) = START_TOKEN

\* The first call was made on a buffer that holds the start token of the one
\* frame sent, and not the whole of that frame.
IncompleteFrameCase ==
    /\ Len(sent) = 1
    /\ Len(results) >= 1
    /\ results[1].avail > Len(noise)
    /\ results[1].avail < Len(stream)

\* C27: a parse of a buffer that holds an accepted start token and not yet
\* the whole frame returns None, leaves complete_frame false and leaves
\* current_pos at the start token, not behind it.
C27_IncompleteFrame ==
    IncompleteFrameCase =>
        /\ results[1].outcome = "None"
        /\ ~results[1].complete_frame
        /\ results[1].after = Len(noise)

\* ------------------------------------- parser properties, escape_indexes

\* The indexes in buffer, from index i on, of the escape bytes the sender's
\* escaping put there: a 0x2D with a 0x2B or 0x2D behind it, pairs read from
\* left to right.
RECURSIVE EscapePositions(_, _)
EscapePositions(buffer, i) ==
    IF i >= Len(buffer) - 1 THEN <<>>
    ELSE IF At(buffer, i) = ESCAPE_TOKEN
            /\ At(buffer, i + 1) \in {START_TOKEN, ESCAPE_TOKEN}
         THEN <<i>> \o EscapePositions(buffer, i + 2)
         ELSE EscapePositions(buffer, i + 1)

\* The first call has returned a frame and no other call was made: the
\* parser's escape_indexes are what that call recorded.
FirstCallReturnedFrame ==
    /\ Len(results) = 1
    /\ results[1].outcome = "Frame"

\* C28: the entries unescaping has recorded in escape_indexes are the
\* indexes, in the buffer the caller passed, of the escape bytes removed,
\* with several escape bytes in one call and with garbage before the start
\* token as well.
C28_EscapeIndexesAbsolute ==
    FirstCallReturnedFrame =>
        parser.escape_indexes =
            EscapePositions(SubSeq(stream, 1, results[1].avail), Len(noise))

\* C29: escape_indexes is empty whenever parse has just returned a frame, so
\* that no index recorded for one frame is left to move the current_pos of a
\* later one.
C29_EscapeIndexesCleared ==
    (Len(results) >= 1 /\ results[Len(results)].outcome = "Frame") =>
        parser.escape_indexes = <<>>

\* The parser as the head of parse leaves it for a buffer of the given
\* length: reset() when the last frame was complete and bytes are left.
StartOfCall(p0, length) ==
    IF p0.complete_frame /\ p0.current_pos < length
    THEN [p0 EXCEPT !.complete_frame = TRUE, !.escape_indexes = <<>>]
    ELSE p0

\* The call made last raised InvalidCommand or FrameCRCMismatch.
LastCallFailed ==
    /\ Len(results) >= 1
    /\ results[Len(results)].outcome \in {"InvalidCommand", "FrameCRCMismatch"}

\* C30: after a call that raised InvalidCommand or FrameCRCMismatch the next
\* call, on the same buffer or on a longer one, begins its frame with
\* escape_indexes empty, whatever complete_frame was before the failing call.
C30_ResetAfterError ==
    LastCallFailed =>
        \A n \in results[Len(results)].avail .. Len(stream) :
            StartOfCall(parser, n).escape_indexes = <<>>

\* ------------------------------- parser properties, current_pos in bounds

\* C31: after each parse call that returns normally current_pos lies in the
\* buffer the call was given, 0 <= current_pos <= len(buffer), and, the
\* buffer only growing and rewinded() never called, no call that returns
\* normally leaves current_pos below where it found it.
C31_PositionInBuffer ==
    \A k \in 1 .. Len(results) :
        ReturnedNormally(results[k]) =>
            /\ 0 <= results[k].after
            /\ results[k].after <= results[k].avail
            /\ results[k].before <= results[k].after

\* ---------------------------------- parser properties, payload length

\* LEN, the value of the length field of the frame f returned, as
\* frame_length holds it: frame_length is start token, command, length
\* field, LEN bytes and CRC.
LengthFieldIn(f) ==
    f.frame_length - 1 - 1 - LengthBytes(f.command) - FRAME_LENGTH_CRC16

\* C32: the payload of each frame returned has exactly LEN - 4 bytes in a
\* standard frame and LEN - 8 bytes in a plant frame, LEN being the value of
\* the frame's length field, for every LEN the parser accepts, LEN below 4
\* and below 8 among them.
C32_PayloadLength ==
    \A k \in 1 .. Len(results) :
        results[k].outcome = "Frame" =>
            Len(results[k].frame.payload) =
                LengthFieldIn(results[k].frame)
                  - (IF is_plant(results[k].frame.command) THEN 8 ELSE 4)

\* ------------------------------------- reader properties, buffer cursors

\* Where parser.parse(mv) leaves current_pos in the pass the running call is
\* about to make, given s, the state the head of the pass leaves, and how
\* the parse ends; "NoParse" when the pass ends before it parses.
PositionInPass(s) ==
    IF s.done # "" THEN [outcome |-> "NoParse", current_pos |-> -1]
    ELSE LET r == parse(s.reader.parser, SubSeq(s.reader.buffer, 1, s.call.mv_len))
         IN  [outcome |-> r.outcome, current_pos |-> r.parser.current_pos]

\* parse returns with every byte received consumed: current_pos is
\* write_cursor + bytes_read.
AllConsumed(s, p) ==
    /\ ReturnedNormally(p)
    /\ p.current_pos = s.call.buffer_pos + s.call.bytes_read

\* A step of the running call in which parse returns with every byte
\* received consumed: the parser is rewound and the cursors are reset.
C33_RewindStep ==
    (call.active /\ AllConsumed(ReadIfNeeded(reader, sock, call),
                                PositionInPass(ReadIfNeeded(reader, sock, call)))) =>
        /\ reader'.parser.current_pos = 0
        /\ call'.active => (call'.buffer_pos = 0 /\ call'.bytes_read = 0)

\* C33: whenever parse, called in recv_frame, returns with current_pos equal
\* to write_cursor + bytes_read, every byte received consumed by a frame or
\* by discarded garbage, the reader resets its cursors and calls
\* parser.rewinded(), so that the next socket read writes at offset 0.
C33_AllConsumedRewind ==
    [][C33_RewindStep]_vars

\* The end of the region the running call has written: write_cursor +
\* bytes_read.
WrittenEnd == call.buffer_pos + call.bytes_read

ReadsSocket ==
    /\ call.active
    /\ (~reader.parser.complete_frame) \/ reader.parser.current_pos = call.bytes_read

\* A step of the running call that reads the socket: the view the read is
\* given, buffer[write_cursor ..], is not empty, and the call ends as on a
\* closed connection only if the socket had nothing left to deliver.
C35_ReadStep ==
    ReadsSocket =>
        /\ WrittenEnd < Len(reader.buffer)
        /\ (Len(history') = Len(history) + 1
              /\ history'[Len(history')].done = "closed") => sock = <<>>

\* C35: whenever recv_frame calls the socket read the view it reads into is
\* not empty, so that a read of zero bytes always means that the remote has
\* closed the connection, for every stream of noise and valid frames each
\* shorter than the buffer.
C35_ReadViewNotEmpty ==
    [][C35_ReadStep]_vars

\* The bytes buffer[from : to] hold the whole of one of the frames sent.
HoldsFrame(buffer, from, to) ==
    \E j \in 1 .. Len(sent) :
        \E at \in from .. to - Len(Wire(sent[j])) :
            Slice(buffer, at, at + Len(Wire(sent[j]))) = Wire(sent[j])

\* C36: recv_frame reads the socket only when the bytes buffered beyond
\* parser.current_pos, up to write_cursor + bytes_read, do not hold a
\* complete frame: it never waits for the socket while a complete unparsed
\* frame is in the buffer, wherever the write cursor is.
C36_ReadOnlyWhenNeeded ==
    ReadsSocket =>
        ~HoldsFrame(reader.buffer, reader.parser.current_pos, WrittenEnd)

\* --------------------------------------------------- monitor properties

\* C38: the monitoring driver makes a bounded number of connection
\* attempts: it never makes more than max_retries, and it ends only by
\* raising RuntimeError, after max_retries attempts have failed.
C38_BoundedReconnection ==
    /\ monitor.attempts <= max_retries
    /\ monitor.pc = "ended" =>
          /\ monitor.raised = "RuntimeError"
          /\ monitor.attempts = max_retries

\* ------------------------------------------------- parsedump properties

\* A turn of the loop that returned a frame or raised InvalidCommand leaves
\* current_pos above where it found it.
C37_TurnAdvances ==
    (dump.pc = "loop" /\ Len(results') = Len(results) + 1
       /\ results'[Len(results')].outcome \in {"Frame", "InvalidCommand"}) =>
        parser'.current_pos > parser.current_pos

\* C37: the loop 'parse; on InvalidCommand add 1 to current_pos and parse
\* again; stop when complete_frame is false' ends on every finite buffer,
\* and every turn that returns a frame or raises InvalidCommand leaves
\* current_pos strictly above where it was.
C37_ResyncTerminates ==
    /\ [][C37_TurnAdvances]_vars
    /\ <>(dump.pc = "ended")

\* The loop has ended by itself after a turn that raised InvalidCommand and
\* a later turn that returned a frame.
C37_Witness ==
    /\ dump.pc = "ended"
    /\ dump.finished
    /\ \E k \in 1 .. Len(results) :
          /\ results[k].outcome = "InvalidCommand"
          /\ \E n \in k + 1 .. Len(results) : results[n].outcome = "Frame"

=============================================================================
